---- MODULE Spec2Model ----
(***************************************************************************)
(* The request-context factory of kb-remix-utils                           *)
(* (src/create-request-context): createRequestContextFactory and the three *)
(* parsing pipelines parseParams, parseQueryString and parseForm, as a     *)
(* state machine of one factory-produced builder serving builder calls.    *)
(*                                                                         *)
(* Objects live on a heap and are named by their reference, so that        *)
(* "the very same object" and "a copy" are different things in the model.  *)
(***************************************************************************)
EXTENDS Integers, Sequences, FiniteSets, TLC

\* ------------------------------------------------------------------ bounds
\* Builder calls made through the one factory-produced builder.
MaxCalls == 2
\* Entries of a form body, or of a URL's query string.
MaxFields == 2
\* Entries of a field collection handed to the object builders on their own.
MaxEntries == 3

\* ------------------------------------------------------------------ values
\* JavaScript values, all of one shape so that any two compare.
\* A number is held by its decimal text; an object by its heap reference.
Undefined == [t |-> "undefined", s |-> "", a |-> <<>>, r |-> 0]
Str(x) == [t |-> "string", s |-> x, a |-> <<>>, r |-> 0]
Num(x) == [t |-> "number", s |-> x, a |-> <<>>, r |-> 0]
Arr(xs) == [t |-> "array", s |-> "", a |-> xs, r |-> 0]
File == [t |-> "file", s |-> "", a |-> <<>>, r |-> 0]
Ref(n) == [t |-> "object", s |-> "", a |-> <<>>, r |-> n]

\* The empty property map of a plain object {}.
EmptyProps == [k \in {} |-> Undefined]

\* A heap object: its data properties, its accessor (getter) properties and
\* how many times a getter of it has been evaluated.
Obj(props, getters) == [props |-> props, getters |-> getters, forced |-> 0]

\* A builder whose context literal lists its properties as the RequestContext
\* type does: form first.
PipelinesFormFirst == <<"form", "params", "queryString">>

\* The three pipelines, in the order the builder awaits them.
Pipelines == <<"params", "queryString", "form">>
PipelineSet == {"params", "queryString", "form"}

\* Field names and field texts of the requests the builder is called with.
FieldKeys == {"name", "age"}
FieldTexts == {"5", "x"}

\* ------------------------------------------------------------------ schemas
\* What a caller passes as a schema option: nothing, a schema, or a thunk.
NoSchema == [kind |-> "none", gen |-> 0]
GivenSchema == [kind |-> "schema", gen |-> 0]
Thunk == [kind |-> "thunk", gen |-> 0]
SchemaOptions == {NoSchema, GivenSchema, Thunk}

\* The schema object a thunk's n-th invocation constructs.
FreshSchema(n) == [kind |-> "schema", gen |-> n]

\* unwrapSchema (utils.ts 141-145): a function is invoked with no arguments
\* and its result returned; anything else is returned unchanged. `ret` is
\* what the caller's thunk returns when it is invoked.
unwrapSchema(schema, ret) == IF schema.kind = "thunk" THEN ret ELSE schema

\* An unwrapSchema that memoizes: the thunk is invoked the first time only.
MemoThunkInvocations(schema, before) ==
  IF schema.kind = "thunk" /\ before = 0 THEN 1 ELSE 0

\* How many times unwrapSchema invokes the thunk when `before` invocations
\* have been made: once, at every use (utils.ts 144).
ThunkInvocations(schema, before) == IF schema.kind = "thunk" THEN 1 ELSE 0

\* A pipeline without the `if (schema)` around its body.
Unguarded(schema) == TRUE

\* `if (schema)`: a schema object is truthy, undefined is not.
Truthy(schema) == schema.kind # "none"

\* The schema the model validates with is the one of the repository's tests,
\* z.object({ name: z.string(), age: z.coerce.number() }).
NumericTexts == {"5"}
ToNumber(v) ==
  IF v.t = "string" /\ v.s \in NumericTexts THEN Num(v.s)
  ELSE IF v.t = "array" /\ Len(v.a) = 1 /\ v.a[1] \in NumericTexts THEN Num(v.a[1])
  ELSE Undefined
Has(obj, key) == key \in DOMAIN obj /\ obj[key].t # "undefined"
NameIssues(obj) ==
  IF ~Has(obj, "name") THEN {"name: Required"}
  ELSE IF obj["name"].t # "string" THEN {"name: Expected string, received array"}
  ELSE {}
AgeIssues(obj) ==
  IF Has(obj, "age") /\ ToNumber(obj["age"]).t = "number" THEN {}
  ELSE {"age: Expected number, received nan"}
safeParse(obj) ==
  LET issues == NameIssues(obj) \cup AgeIssues(obj)
  IN IF issues = {}
       THEN [success |-> TRUE,
             data |-> [k \in {"name", "age"} |->
                         IF k = "name" THEN obj["name"] ELSE ToNumber(obj["age"])],
             issues |-> {}]
       ELSE [success |-> FALSE, data |-> EmptyProps, issues |-> issues]

\* ------------------------------------------------------------- object build
\* react-hook-form's set and get on a key that is a plain property name, as
\* the builder's merge uses them on the configurator's object: with no path
\* syntax in the key, set assigns the property and get reads it.
Set(obj, key, value) ==
  [k \in DOMAIN obj \cup {key} |-> IF k = key THEN value ELSE obj[k]]
Get(obj, key) == IF key \in DOMAIN obj THEN obj[key] ELSE Undefined

\* The object a pipeline builds is a tree: a function from the paths of its
\* nodes (sequences of property names, <<>> for the object itself) to what is
\* there: an object, an array or a string. A value on its own is the tree
\* whose root is that value.
Node(t, s) == [t |-> t, s |-> s]
Leaf(n) == [p \in {<<>>} |-> n]
UndefinedTree == Leaf(Node("undefined", ""))
StringTree(x) == Leaf(Node("string", x))
EmptyObject == Leaf(Node("object", ""))
EmptyArray == Leaf(Node("array", ""))
IsPrefix(p, q) == Len(p) <= Len(q) /\ SubSeq(q, 1, Len(p)) = p

\* The value at path p of tree, undefined when nothing is there.
Sub(tree, p) ==
  IF p \in DOMAIN tree
    THEN [q \in {SubSeq(x, Len(p) + 1, Len(x)) : x \in {y \in DOMAIN tree : IsPrefix(p, y)}}
            |-> tree[p \o q]]
    ELSE UndefinedTree

\* tree after the assignment of value at path p: what was there is replaced.
Graft(tree, p, value) ==
  LET kept == {x \in DOMAIN tree : ~IsPrefix(p, x)}
      added == {p \o q : q \in DOMAIN value}
  IN [x \in kept \cup added |->
        IF x \in added THEN value[SubSeq(x, Len(p) + 1, Len(x))] ELSE tree[x]]

\* Array indexes as property names.
Digits == <<"0", "1", "2", "3", "4", "5", "6", "7", "8", "9">>
IndexSegments == {Digits[n] : n \in DOMAIN Digits}
IndexOf(seg) == CHOOSE n \in DOMAIN Digits : Digits[n] = seg

\* The array literal [trees[1], ..., trees[n]].
ArrayOf(trees) ==
  LET dom == {<<>>} \cup UNION {{<<Digits[j]>> \o q : q \in DOMAIN trees[j]} : j \in DOMAIN trees}
  IN [x \in dom |-> IF x = <<>> THEN Node("array", "") ELSE trees[IndexOf(x[1])][Tail(x)]]

\* The length of the array at path p: one more than its greatest index.
Length(tree, p) ==
  LET used == {n \in DOMAIN Digits : p \o <<Digits[n]>> \in DOMAIN tree}
  IN IF used = {} THEN 0 ELSE CHOOSE n \in used : \A m \in used : m <= n

\* array.push(value) on the array at path p.
Push(tree, p, value) == Graft(tree, p \o <<Digits[Length(tree, p) + 1]>>, value)

\* How react-hook-form splits a key into its path: at the dots and brackets,
\* a key without any being the path of that one name.
stringToPath(key) ==
  CASE key = "a.b" -> <<"a", "b">>
    [] key = "a.0" -> <<"a", "0">>
    [] OTHER -> <<key>>

\* value[key] in JavaScript: an own property of an object or array; of a
\* string, the character at that index (the texts here are one character
\* long, so index 0 is the text and no other index exists).
Prop(value, key) ==
  IF value[<<>>].t \in {"object", "array"} THEN Sub(value, <<key>>)
  ELSE IF value[<<>>].t = "string" /\ key = "0" /\ value[<<>>].s # "" THEN value
  ELSE UndefinedTree

\* react-hook-form's get(obj, key, undefined): undefined for an empty key;
\* otherwise the path is walked from obj, stopping at undefined, and when the
\* walk finds nothing, obj[key] is the answer.
RECURSIVE GetWalk(_, _, _)
GetWalk(value, segs, i) ==
  IF i > Len(segs) \/ value[<<>>].t = "undefined" THEN value
  ELSE GetWalk(Prop(value, segs[i]), segs, i + 1)
get(obj, key) ==
  LET result == GetWalk(obj, stringToPath(key), 1)
  IN IF key = "" THEN UndefinedTree
     ELSE IF result[<<>>].t = "undefined" THEN Prop(obj, key) ELSE result

\* react-hook-form's set(obj, key, value): the path is walked from obj; on
\* the way, what is neither an object nor an array is replaced by a new array
\* when the next name is an index and by a new object otherwise; at the end of
\* the path the value is assigned.
RECURSIVE SetWalk(_, _, _, _, _)
SetWalk(tree, at, segs, i, value) ==
  LET child == at \o <<segs[i]>>
  IN IF i = Len(segs) THEN Graft(tree, child, value)
     ELSE LET kept == child \in DOMAIN tree /\ tree[child].t \in {"object", "array"}
              fresh == IF segs[i + 1] \in IndexSegments THEN EmptyArray ELSE EmptyObject
          IN SetWalk(IF kept THEN tree ELSE Graft(tree, child, fresh), child, segs, i + 1, value)
set(obj, key, value) == SetWalk(obj, <<>>, stringToPath(key), 1, value)

\* form.getAll(key).
GetAll(form, key) == SelectSeq(form, LAMBDA e : e.key = key)

\* A parseForm without the filter: a file is kept, as the text it converts to.
KeepFiles(entries) ==
  [i \in 1..Len(entries) |->
     IF entries[i].value.t = "string" THEN entries[i].value.s ELSE "[object File]"]

\* The filter that strips the non-string values (utils.ts 38).
StringTexts(entries) ==
  LET strs == SelectSeq(entries, LAMBDA e : e.value.t = "string")
  IN [i \in 1..Len(strs) |-> strs[i].value.s]

\* The loop of parseForm (utils.ts 33-47) from entry i on.
RECURSIVE FormLoop(_, _, _)
FormLoop(form, i, obj) ==
  IF i > Len(form) THEN obj
  ELSE LET key == form[i].key
           values == StringTexts(GetAll(form, key))
       IN IF Len(values) = 0
            THEN FormLoop(form, i + 1, obj)
            ELSE FormLoop(form, i + 1,
                   set(obj, key,
                       IF Len(values) = 1 THEN StringTree(values[1])
                       ELSE ArrayOf([j \in 1..Len(values) |-> StringTree(values[j])])))
BuildFormObject(form) == FormLoop(form, 1, EmptyObject)

\* The loop of parseQueryString (utils.ts 110-122) from entry i on.
RECURSIVE QueryLoop(_, _, _)
QueryLoop(entries, i, obj) ==
  IF i > Len(entries) THEN obj
  ELSE LET key == entries[i].key
           value == StringTree(entries[i].value.s)
           check == get(obj, key)
       IN IF check[<<>>].t # "undefined"
            THEN IF check[<<>>].t = "array"
                   THEN QueryLoop(entries, i + 1, Push(obj, stringToPath(key), value))
                   ELSE QueryLoop(entries, i + 1, set(obj, key, ArrayOf(<<check, value>>)))
            ELSE QueryLoop(entries, i + 1, set(obj, key, value))
BuildQueryObject(entries) == QueryLoop(entries, 1, EmptyObject)

\* The built object as its own properties' values, which is what the schema
\* reads of it.
ValueOf(tree) ==
  IF tree[<<>>].t = "string" THEN Str(tree[<<>>].s)
  ELSE IF tree[<<>>].t = "array"
    THEN Arr([j \in 1..Length(tree, <<>>) |->
                IF <<Digits[j]>> \in DOMAIN tree THEN tree[<<Digits[j]>>].s ELSE ""])
  ELSE IF tree[<<>>].t = "object" THEN Ref(0)
  ELSE Undefined
Properties(tree) ==
  [k \in {x[1] : x \in {y \in DOMAIN tree : Len(y) = 1}} |-> ValueOf(Sub(tree, <<k>>))]

\* ------------------------------------------------------------------ inputs
Entry(k, v) == [key |-> k, value |-> v]
SeqsUpTo(S, n) == UNION {[1..m -> S] : m \in 0..n}
\* Field collections a body read can produce: strings and files.
FormDatas ==
  SeqsUpTo({Entry(k, v) : k \in FieldKeys, v \in {Str(x) : x \in FieldTexts} \cup {File}},
           MaxFields)
\* Query strings a request URL can carry: strings only.
QueryStrings ==
  SeqsUpTo({Entry(k, Str(x)) : k \in FieldKeys, x \in FieldTexts}, MaxFields)
\* Path-parameter mappings of the router.
ParamsInputs ==
  { [k \in {"name", "age"} |-> IF k = "name" THEN Str("x") ELSE Str("5")],
    [k \in {"age"} |-> Str("x")],
    [k \in {"name"} |-> Str("x")] }
\* The request of a call, as far as the pipelines read it: its URL's entries
\* and the field collection its body reader gives. A request that is not
\* known beforehand holds whatever the pipeline finds when it reads it.
AnyRequest == [known |-> FALSE, url |-> <<>>, body |-> <<>>]
Request(url, body) == [known |-> TRUE, url |-> url, body |-> body]
\* new URL(dataArgs.request.url).searchParams.entries() (utils.ts 109).
UrlEntries(request) == IF request.known THEN {request.url} ELSE QueryStrings
\* What the awaited field collection can be (utils.ts 30-32): the custom
\* extractor's is its own business, the body reader's is the request's body.
FieldsFrom(request, source) ==
  IF source = "request" /\ request.known THEN {request.body} ELSE FormDatas
\* Objects a configurator returns: {} and one with a data property and a getter.
BaseContexts ==
  { Obj(EmptyProps, {}),
    Obj([k \in {"magic"} |-> Num("0")], {"test"}) }

\* ------------------------------------------------------------------ errors
Error(msg) == [name |-> "Error", message |-> msg, issues |-> {}]
ZodError(issues) == [name |-> "ZodError", message |-> "issues", issues |-> issues]
NoError == [name |-> "", message |-> "", issues |-> {}]
ConfiguratorError == Error("I can do this!")
HookError == Error("custom error")

\* The fixed message of each pipeline (utils.ts 56, 86, 131).
PipelineMessage(p) ==
  IF p = "form" THEN "Several issues were found while trying to parse the form data."
  ELSE IF p = "params" THEN "Several issues were found while trying to parse the params."
  ELSE "Several issues were found while trying to parse the query string."

\* A pipeline that throws the validation error itself.
ThrowZodError(p, issues) == ZodError(issues)

\* What a pipeline throws once validation has failed and the hook, if any,
\* has returned: a new Error with the fixed message (utils.ts 56, 86, 131).
ThrownError(p, issues) == Error(PipelineMessage(p))

\* ------------------------------------------------------------------- state
\* Builder calls that can be in progress at once. Spec runs them one at a
\* time, in slot 1.
Slots == {1, 2}

VARIABLES
  factoryOptions,  \* the normalized options record of the factory
  call,            \* per slot, the builder call in progress (see IdleCall)
  calls,           \* builder calls started
  thunkCalls,      \* per pipeline, invocations of its schema thunk so far
  callsWithThunk,  \* per pipeline, builder calls made with a thunk for it
  allOk,           \* no builder call has rejected so far
  input,           \* what a pure function of the library is applied to
  output           \* what the functions applied so far have returned

vars == <<factoryOptions, call, calls, thunkCalls, callsWithThunk, allOk, input, output>>

NoOptions ==
  [paramsSchema |-> NoSchema, queryStringSchema |-> NoSchema, formSchema |-> NoSchema,
   formDataParser |-> FALSE]
CallOptions ==
  [paramsSchema : SchemaOptions, queryStringSchema : SchemaOptions,
   formSchema : SchemaOptions, formDataParser : BOOLEAN]

NoArgs == [ref |-> 0, params |-> 0]
NoContext == [p \in PipelineSet |-> Undefined]
Pending == [state |-> "pending", value |-> 0, error |-> NoError]
Fulfilled(ref) == [state |-> "fulfilled", value |-> ref, error |-> NoError]
Rejected(err) == [state |-> "rejected", value |-> 0, error |-> err]

\* A builder call:
\*   pc             where the call stands
\*   cur            index in Pipelines of the pipeline in progress
\*   args           the DataFunctionArgs: its reference and its params'
\*   request        the DataFunctionArgs' request
\*   options        the per-call options
\*   customContext  reference of the configurator's resolved output, 0 before
\*   context        the builder's local `context`: the pipelines' values
\*   schema         the unwrapped schema of the pipeline in progress
\*   issues         the validation issues of the pipeline in progress
\*   outcome        the promise the builder returned
\*   heap           the call's objects, by reference
\*   log            what the call has invoked so far, in order
IdleCall ==
  [pc |-> "idle", cur |-> 0, args |-> NoArgs, request |-> AnyRequest, options |-> NoOptions,
   customContext |-> 0, context |-> NoContext, schema |-> NoSchema, issues |-> {},
   outcome |-> Pending, heap |-> <<>>, log |-> <<>>]

\* createRequestContextFactory's normalization (factory.ts 22-27): a bare
\* configurator becomes the record with that configurator and no hooks.
NoHooks == [onFormError |-> FALSE, onParamsError |-> FALSE, onQueryStringError |-> FALSE]
FactoryInputs ==
  {[isFunction |-> TRUE, record |-> NoHooks]} \cup
  {[isFunction |-> FALSE, record |-> r] :
     r \in [onFormError : BOOLEAN, onParamsError : BOOLEAN, onQueryStringError : BOOLEAN]}
NormalizeOptions(configuratorOrOptions) ==
  IF configuratorOrOptions.isFunction THEN NoHooks ELSE configuratorOrOptions.record

\* The hook the builder hands to each pipeline (factory.ts 45, 51, 57).
HookFor(p) ==
  IF p = "params" THEN factoryOptions.onParamsError
  ELSE IF p = "queryString" THEN factoryOptions.onQueryStringError
  ELSE factoryOptions.onFormError

\* The schema option the builder unwraps for each pipeline (factory.ts 43, 49, 55).
SchemaOptionFor(opts, p) ==
  IF p = "params" THEN opts.paramsSchema
  ELSE IF p = "queryString" THEN opts.queryStringSchema
  ELSE opts.formSchema

Event(ev, p) ==
  [ev |-> ev, p |-> p, ctx |-> 0, args |-> 0, gen |-> 0, issues |-> {}, src |-> ""]
Logging(r, e) == [r EXCEPT !.log = Append(@, e)]
Logged(r, ev, p) == {i \in DOMAIN r.log : r.log[i].ev = ev /\ r.log[i].p = p}
Count(r, ev, p) == Cardinality(Logged(r, ev, p))

\* No pure function is being applied: the builder's specifications.
NoInput == <<>>
NoOutput == <<>>

Init ==
  /\ factoryOptions \in {NormalizeOptions(c) : c \in FactoryInputs}
  /\ call = [c \in Slots |-> IdleCall]
  /\ calls = 0
  /\ thunkCalls = [p \in PipelineSet |-> 0]
  /\ callsWithThunk = [p \in PipelineSet |-> 0]
  /\ allOk = TRUE
  /\ input = NoInput
  /\ output = NoOutput

\* A builder whose local `context` lives in the factory's closure instead:
\* what one call puts in it, every call in progress sees.
StepShared(c, r) ==
  /\ call' = [d \in Slots |->
               IF d = c THEN r
               ELSE IF call[d].pc \in {"idle", "done"} THEN call[d]
               ELSE [call[d] EXCEPT !.context = r.context]]
  /\ allOk' = (allOk /\ r.outcome.state # "rejected")

\* Slot c's call becomes r.
Step(c, r) ==
  /\ call' = [call EXCEPT ![c] = r]
  /\ allOk' = (allOk /\ r.outcome.state # "rejected")

\* The builder's promise rejects with err: nothing after the throw runs.
Reject(r, err) == [r EXCEPT !.outcome = Rejected(err), !.pc = "done"]

\* createRequestContext(args, options) is called (factory.ts 29-37).
CallBuilder(c, params, request, opts) ==
  /\ call[c].pc = "idle"
  /\ Step(c, [IdleCall EXCEPT
                !.pc = "configurator",
                !.heap = <<Obj(params, {}), Obj([k \in {"params"} |-> Ref(1)], {})>>,
                !.args = [ref |-> 2, params |-> 1],
                !.request = request,
                !.options = opts])
  /\ calls' = calls + 1
  /\ callsWithThunk' =
       [p \in PipelineSet |->
          callsWithThunk[p] + (IF SchemaOptionFor(opts, p).kind = "thunk" THEN 1 ELSE 0)]
  /\ UNCHANGED <<factoryOptions, thunkCalls, input, output>>

\* A builder that does not await the configurator: the pipelines start with
\* its promise for a context.
ConfiguratorNotAwaited(r, base) ==
  [r EXCEPT !.heap = Append(@, base), !.customContext = 0, !.pc = "unwrap", !.cur = 1]

\* The configurator's output is awaited and becomes customContext; the first
\* pipeline is next (factory.ts 38-41).
ConfiguratorResolved(r, base) ==
  [r EXCEPT !.heap = Append(@, base), !.customContext = Len(r.heap) + 1,
            !.pc = "unwrap", !.cur = 1]

\* A builder that wraps the configurator's error in one of its own.
ConfiguratorFailedWrapped(r, err) ==
  Reject(r, Error("The configurator failed."))

\* The configurator threw, or its promise rejected, with err: the builder has
\* no try around the await, so its own promise rejects with err (factory.ts 38).
ConfiguratorFailed(r, err) == Reject(r, err)

\* factoryOptions.configurator(args, options) is invoked (factory.ts 38): it
\* throws, returns its context, or returns a promise that is then awaited.
ConfiguratorCall(c) ==
  /\ call[c].pc = "configurator"
  /\ LET r == Logging(call[c], Event("configurator", ""))
     IN \/ Step(c, ConfiguratorFailed(Logging(r, Event("configuratorRaised", "")),
                                      ConfiguratorError))
        \/ \E base \in BaseContexts : Step(c, ConfiguratorResolved(r, base))
        \/ Step(c, [r EXCEPT !.pc = "configuratorAwait"])
  /\ UNCHANGED <<factoryOptions, calls, thunkCalls, callsWithThunk, input, output>>

\* The configurator's promise settles.
ConfiguratorSettle(c) ==
  /\ call[c].pc = "configuratorAwait"
  /\ \/ Step(c, ConfiguratorFailed(Logging(call[c], Event("configuratorRaised", "")),
                                   ConfiguratorError))
     \/ \E base \in BaseContexts : Step(c, ConfiguratorResolved(call[c], base))
  /\ UNCHANGED <<factoryOptions, calls, thunkCalls, callsWithThunk, input, output>>

\* A builder that attaches each pipeline's value as soon as it has it.
ResolveEager(r, v) ==
  [r EXCEPT !.context = [@ EXCEPT ![Pipelines[r.cur]] = v],
            !.heap = [@ EXCEPT ![r.customContext].props = Set(@, Pipelines[r.cur], v)],
            !.pc = IF r.cur < Len(Pipelines) THEN "unwrap" ELSE "merge",
            !.cur = IF r.cur < Len(Pipelines) THEN r.cur + 1 ELSE r.cur]

\* The pipeline in progress resolves with value v; the builder goes on to the
\* next property of its `context` literal (factory.ts 40-60).
Resolve(r, v) ==
  [r EXCEPT !.context = [@ EXCEPT ![Pipelines[r.cur]] = v],
            !.pc = IF r.cur < Len(Pipelines) THEN "unwrap" ELSE "merge",
            !.cur = IF r.cur < Len(Pipelines) THEN r.cur + 1 ELSE r.cur]

\* unwrapSchema(options?.xSchema) as the builder evaluates the pipeline's
\* arguments (factory.ts 43, 49, 55; utils.ts 141-145).
Unwrap(c) ==
  /\ call[c].pc = "unwrap"
  /\ LET r == call[c]
         p == Pipelines[r.cur]
         s == SchemaOptionFor(r.options, p)
         n == ThunkInvocations(s, thunkCalls[p])
         g == thunkCalls[p] + n
         r1 == IF n > 0 THEN Logging(r, [Event("thunk", p) EXCEPT !.gen = g]) ELSE r
     IN /\ \E ret \in (IF s.kind = "thunk" THEN {NoSchema, FreshSchema(g)} ELSE {NoSchema}) :
              Step(c, [r1 EXCEPT !.schema = unwrapSchema(s, ret), !.pc = "parse"])
        /\ thunkCalls' = [thunkCalls EXCEPT ![p] = g]
  /\ UNCHANGED <<factoryOptions, calls, callsWithThunk, input, output>>

\* parseParams returning the whole dataArgs instead of its params.
NoSchemaDataArgs(r, p) == IF p = "params" THEN Ref(r.args.ref) ELSE Undefined

\* What a pipeline returns when its schema is undefined (utils.ts 58, 88, 133).
NoSchemaDefault(r, p) == IF p = "params" THEN Ref(r.args.params) ELSE Undefined

\* A hook event with context and dataArgs taken for one another.
SwappedHookEvent(r, p) ==
  [Event("hook", p) EXCEPT !.ctx = r.args.ref, !.args = r.customContext,
                           !.issues = r.issues]

\* The event object a pipeline hands to its error hook (utils.ts 54, 84, 129).
HookEvent(r, p) ==
  [Event("hook", p) EXCEPT !.ctx = r.customContext, !.args = r.args.ref,
                           !.issues = r.issues]

\* A pipeline whose failure, without a hook, is swallowed: the builder goes on.
OnFailureContinue(r, p) ==
  IF HookFor(p)
    THEN [r EXCEPT !.pc = "hook"]
    ELSE [r EXCEPT !.pc = IF r.cur < Len(Pipelines) THEN "unwrap" ELSE "merge",
                   !.cur = IF r.cur < Len(Pipelines) THEN r.cur + 1 ELSE r.cur]

\* After a failed safeParse (utils.ts 53-56, 83-86, 128-131): the hook, if
\* there is one, is invoked next; without one the pipeline throws.
OnFailure(r, p) ==
  IF HookFor(p) THEN [r EXCEPT !.pc = "hook"] ELSE Reject(r, ThrownError(p, r.issues))

\* schema.safeParse(obj) and what follows it (utils.ts 49-56, 79-86, 124-131).
Validate(r, p, obj, src) ==
  LET result == safeParse(obj)
      r1 == Logging(r, [Event("validate", p) EXCEPT !.gen = r.schema.gen, !.src = src])
  IN IF result.success
       THEN Resolve([r1 EXCEPT !.heap = Append(@, Obj(result.data, {})), !.issues = {}],
                    Ref(Len(r.heap) + 1))
       ELSE OnFailure([r1 EXCEPT !.issues = result.issues], p)

\* parseParams (utils.ts 69-89).
ParseParams(c) ==
  /\ call[c].pc = "parse"
  /\ Pipelines[call[c].cur] = "params"
  /\ LET r == Logging(call[c], Event("parse", "params"))
     IN IF Truthy(r.schema)
          THEN Step(c, Validate(r, "params", r.heap[r.args.params].props, "params"))
          ELSE Step(c, Resolve(r, NoSchemaDefault(r, "params")))
  /\ UNCHANGED <<factoryOptions, calls, thunkCalls, callsWithThunk, input, output>>

\* parseQueryString (utils.ts 99-134); qs are the entries of the request URL.
ParseQueryString(c) ==
  /\ call[c].pc = "parse"
  /\ Pipelines[call[c].cur] = "queryString"
  /\ LET r == Logging(call[c], Event("parse", "queryString"))
     IN IF Truthy(r.schema)
          THEN \E qs \in UrlEntries(r.request) :
                 Step(c, Validate(r, "queryString", Properties(BuildQueryObject(qs)), "url"))
          ELSE Step(c, Resolve(r, NoSchemaDefault(r, "queryString")))
  /\ UNCHANGED <<factoryOptions, calls, thunkCalls, callsWithThunk, input, output>>

\* parseForm ignoring the custom extractor.
AlwaysRequest(hasParser) == "request"

\* Where parseForm reads the field collection from (utils.ts 30-32).
FormSource(hasParser) == IF hasParser THEN "formDataParser" ELSE "request"

\* parseForm up to its first await (utils.ts 29-32).
ParseForm(c) ==
  /\ call[c].pc = "parse"
  /\ Pipelines[call[c].cur] = "form"
  /\ LET r == Logging(call[c], Event("parse", "form"))
     IN IF Truthy(r.schema)
          THEN Step(c, [Logging(r, [Event(FormSource(r.options.formDataParser), "form")
                                      EXCEPT !.ctx = r.customContext, !.args = r.args.ref])
                          EXCEPT !.pc = "formAwait"])
          ELSE Step(c, Resolve(r, NoSchemaDefault(r, "form")))
  /\ UNCHANGED <<factoryOptions, calls, thunkCalls, callsWithThunk, input, output>>

\* The awaited field collection arrives; parseForm builds and validates
\* (utils.ts 33-56).
FormResolve(c) ==
  /\ call[c].pc = "formAwait"
  /\ LET r == call[c]
         source == r.log[Len(r.log)].ev
     IN \E form \in FieldsFrom(r.request, source) :
          Step(c, Validate(r, "form", Properties(BuildFormObject(form)), source))
  /\ UNCHANGED <<factoryOptions, calls, thunkCalls, callsWithThunk, input, output>>

\* A pipeline that catches what its hook raises and throws its own error.
AfterHookSwallow(r, p, hookRaised) == Reject(r, ThrownError(p, r.issues))

\* After the hook has thrown, or what it returned has settled (utils.ts
\* 54-56): its error propagates, otherwise the pipeline throws its own.
AfterHook(r, p, hookRaised) ==
  IF hookRaised THEN Reject(r, HookError) ELSE Reject(r, ThrownError(p, r.issues))

\* A pipeline that does not await what its hook returns: it throws at once.
HookNotAwaited(r, p) == Reject(r, ThrownError(p, r.issues))

\* The hook has returned: the pipeline awaits what it returned (utils.ts 54).
HookAwaited(r, p) == [r EXCEPT !.pc = "hookAwait"]

\* `await onParseError({ error, context, dataArgs })`: the hook is invoked; it
\* throws, or returns something that is then awaited (utils.ts 53-55).
HookInvoke(c) ==
  /\ call[c].pc = "hook"
  /\ LET p == Pipelines[call[c].cur]
         r == Logging(call[c], HookEvent(call[c], p))
     IN \/ Step(c, AfterHook(Logging(r, Event("hookRaised", p)), p, TRUE))
        \/ Step(c, HookAwaited(r, p))
  /\ UNCHANGED <<factoryOptions, calls, thunkCalls, callsWithThunk, input, output>>

\* What the hook returned settles: it rejects, or it resolves.
HookSettle(c) ==
  /\ call[c].pc = "hookAwait"
  /\ LET p == Pipelines[call[c].cur]
     IN \/ Step(c, AfterHook(Logging(call[c], Event("hookRaised", p)), p, TRUE))
        \/ Step(c, AfterHook(Logging(call[c], Event("hookReturned", p)), p, FALSE))
  /\ UNCHANGED <<factoryOptions, calls, thunkCalls, callsWithThunk, input, output>>

\* A merge by object spread, { ...customContext, ...context }: every getter of
\* customContext is evaluated and a new object is returned.
SpreadMerge(h, ref, ctx) ==
  LET o == h[ref]
      keys == DOMAIN o.props \cup o.getters \cup PipelineSet
      copy == [k \in keys |->
                 IF k \in PipelineSet THEN ctx[k]
                 ELSE IF k \in o.getters THEN Str(k) ELSE o.props[k]]
  IN [heap |-> Append([h EXCEPT ![ref].forced = @ + Cardinality(o.getters)], Obj(copy, {})),
      ref |-> Len(h) + 1]

\* The three set(customContext, key, value) calls (factory.ts 62-64): the heap
\* after them and the reference the builder returns (factory.ts 66).
MergeContext(h, ref, ctx) ==
  [heap |-> [h EXCEPT ![ref].props =
               Set(Set(Set(@, "form", ctx["form"]), "params", ctx["params"]),
                   "queryString", ctx["queryString"])],
   ref |-> ref]

Merge(c) ==
  /\ call[c].pc = "merge"
  /\ LET r == call[c]
         m == MergeContext(r.heap, r.customContext, r.context)
     IN Step(c, [r EXCEPT !.heap = m.heap, !.outcome = Fulfilled(m.ref), !.pc = "done",
                          !.log = @ \o <<Event("set", "form"), Event("set", "params"),
                                         Event("set", "queryString")>>])
  /\ UNCHANGED <<factoryOptions, calls, thunkCalls, callsWithThunk, input, output>>

\* The caller has the call's outcome and the slot is free again. The counters
\* of the calls so far start over with it.
Return(c) ==
  /\ call[c].pc = "done"
  /\ call' = [call EXCEPT ![c] = IdleCall]
  /\ calls' = 0
  /\ thunkCalls' = [p \in PipelineSet |-> 0]
  /\ callsWithThunk' = [p \in PipelineSet |-> 0]
  /\ allOk' = TRUE
  /\ UNCHANGED <<factoryOptions, input, output>>

\* One step of the call in slot c.
Run(c) ==
  \/ ConfiguratorCall(c)
  \/ ConfiguratorSettle(c)
  \/ Unwrap(c)
  \/ ParseParams(c)
  \/ ParseQueryString(c)
  \/ ParseForm(c)
  \/ FormResolve(c)
  \/ HookInvoke(c)
  \/ HookSettle(c)
  \/ Merge(c)

\* One builder call at a time, any request and any options.
Next ==
  \/ \E params \in ParamsInputs, opts \in CallOptions : CallBuilder(1, params, AnyRequest, opts)
  \/ Run(1)
  \/ Return(1)

Spec == Init /\ [][Next]_vars

\* ------------------------------------------------- several calls, counted
\* The slot is free again and the counters of the calls so far are kept.
ReturnCounting(c) ==
  /\ call[c].pc = "done"
  /\ call' = [call EXCEPT ![c] = IdleCall]
  /\ UNCHANGED <<factoryOptions, calls, thunkCalls, callsWithThunk, allOk, input, output>>

\* A factory made from an options record with the three hooks.
AllHooks == [onFormError |-> TRUE, onParamsError |-> TRUE, onQueryStringError |-> TRUE]
InitCalls ==
  /\ Init
  /\ factoryOptions = NormalizeOptions([isFunction |-> FALSE, record |-> AllHooks])

\* Up to MaxCalls builder calls, one after the other, with any schema options
\* and the request's own body reader; the caller stops at the first rejection.
NextCalls ==
  \/ /\ calls < MaxCalls
     /\ allOk
     /\ \E params \in ParamsInputs, opts \in CallOptions :
          /\ ~opts.formDataParser
          /\ CallBuilder(1, params, AnyRequest, opts)
  \/ Run(1)
  \/ ReturnCounting(1)

SpecCalls == InitCalls /\ [][NextCalls]_vars

\* ------------------------------------------------------ two calls at once
\* Four calls for different requests, each with the path parameters the
\* router took from its URL: two that every schema accepts, one whose body
\* lacks a field and one whose path parameters lack one.
ConcurrentCalls ==
  LET params == [k \in {"name", "age"} |-> IF k = "name" THEN Str("x") ELSE Str("5")]
  IN { [params |-> params,
        request |-> Request(<<Entry("name", Str("x")), Entry("age", Str("5"))>>,
                            <<Entry("name", Str("x")), Entry("age", Str("5"))>>)],
       [params |-> params,
        request |-> Request(<<Entry("name", Str("5")), Entry("age", Str("5"))>>,
                            <<Entry("age", Str("5")), Entry("name", Str("5"))>>)],
       [params |-> params,
        request |-> Request(<<Entry("age", Str("5")), Entry("name", Str("x"))>>,
                            <<Entry("name", Str("x"))>>)],
       [params |-> [k \in {"name"} |-> Str("x")],
        request |-> Request(<<Entry("name", Str("5"))>>, <<>>)] }
\* The same kind of schema option for the three pipelines, and the request's
\* own body reader.
ConcurrentOptions ==
  {o \in CallOptions :
     /\ ~o.formDataParser
     /\ o.paramsSchema # NoSchema
     /\ o.queryStringSchema = o.paramsSchema
     /\ o.formSchema = o.paramsSchema}

\* Two calls of the one builder, for different requests, their steps
\* interleaved in any order.
NextConc ==
  \E c \in Slots :
    \/ \E args \in ConcurrentCalls, opts \in ConcurrentOptions :
         /\ \A d \in Slots \ {c} : call[d].request # args.request
         /\ CallBuilder(c, args.params, args.request, opts)
    \/ Run(c)

SpecConc == InitCalls /\ [][NextConc]_vars

\* --------------------------------------------- calls for known requests
\* One builder call at a time, with any options, for a request whose path
\* parameters, URL and body are known beforehand.
NextKnown ==
  \/ \E args \in ConcurrentCalls, opts \in CallOptions :
       CallBuilder(1, args.params, args.request, opts)
  \/ Run(1)
  \/ Return(1)

SpecKnown == Init /\ [][NextKnown]_vars

\* ------------------------------------------------ the object builders alone
\* Keys that are property names, the empty name among them, and keys that are
\* paths, one of them through another key and one an index into it.
PathKeys == {"", "a", "b", "a.b", "a.0"}
PathTexts == {"x", "y"}
\* Ordered field collections: strings and files under those keys.
FieldCollections ==
  SeqsUpTo({Entry(k, v) : k \in PathKeys, v \in {Str(x) : x \in PathTexts} \cup {File}},
           MaxEntries)
\* A URL's searchParams hold strings only.
StringsOnly(entries) == \A i \in DOMAIN entries : entries[i].value.t = "string"

\* Nothing built yet.
NotBuilt == [built |-> {}, form |-> UndefinedTree, queryString |-> UndefinedTree]

\* The builder is not in use: no call is made, every slot stays idle.
BuilderIdle ==
  /\ factoryOptions = NormalizeOptions([isFunction |-> TRUE, record |-> NoHooks])
  /\ call = [c \in Slots |-> IdleCall]
  /\ calls = 0
  /\ thunkCalls = [p \in PipelineSet |-> 0]
  /\ callsWithThunk = [p \in PipelineSet |-> 0]
  /\ allOk = TRUE
builderVars == <<factoryOptions, call, calls, thunkCalls, callsWithThunk, allOk>>

InitBuild ==
  /\ BuilderIdle
  /\ input \in FieldCollections
  /\ output = NotBuilt

\* parseForm builds its object from the field collection (utils.ts 33-47).
BuildForm ==
  /\ "form" \notin output.built
  /\ output' = [output EXCEPT !.built = @ \cup {"form"}, !.form = BuildFormObject(input)]
  /\ UNCHANGED <<builderVars, input>>

\* parseQueryString builds its object from the URL's entries (utils.ts 109-122).
BuildQuery ==
  /\ "queryString" \notin output.built
  /\ StringsOnly(input)
  /\ output' = [output EXCEPT !.built = @ \cup {"queryString"},
                              !.queryString = BuildQueryObject(input)]
  /\ UNCHANGED <<builderVars, input>>

NextBuild == BuildForm \/ BuildQuery

SpecBuild == InitBuild /\ [][NextBuild]_vars

\* ------------------------------------------------ the boolean-gated schema
\* zodDiscriminatedEnabledUnion's preprocess step (src/zod/index.ts 42-71).
Null == [t |-> "null", s |-> "", a |-> <<>>, r |-> 0]
Bool(b) == [t |-> "boolean", s |-> IF b THEN "true" ELSE "false", a |-> <<>>, r |-> 0]

\* A value handed to the schema: what it is and, of an object, its own
\* enumerable properties.
Val(v, props) == [v |-> v, props |-> props]
\* What a form field `enabled` arrives as, or is set to by a caller.
EnabledValues ==
  {Bool(TRUE), Bool(FALSE), Str("true"), Str("false"), Str("on"), Str(""), Str("5"),
   Num("5"), Null, Undefined}
OtherProps ==
  UNION {[ks -> {Str("x"), Str("true"), Num("5")}] : ks \in SUBSET {"name", "age"}}
PreprocessInputs ==
  {Val(v, EmptyProps) :
     v \in {Undefined, Null, Str("true"), Str("x"), Num("5"), Bool(TRUE), Bool(FALSE), Arr(<<>>)}}
  \cup {Val(Ref(1), props) : props \in OtherProps}
  \cup {Val(Ref(1), Set(props, "enabled", e)) : props \in OtherProps, e \in EnabledValues}

\* typeof val.
TypeOf(v) == IF v.t \in {"object", "array", "null"} THEN "object" ELSE v.t

\* objectHasEnabledProperty (src/zod/index.ts 69-71).
objectHasEnabledProperty(val) ==
  /\ TypeOf(val.v) = "object"
  /\ val.v # Null
  /\ val.v # Undefined
  /\ "enabled" \in DOMAIN val.props

\* A coercion by truthiness, Boolean(val.enabled).
TruthyEnabled(enabled) ==
  IF enabled.t = "boolean" THEN enabled
  ELSE Bool(~(enabled \in {Undefined, Null, Str("")}))

\* typeof val.enabled === 'boolean' ? val.enabled : val.enabled === 'true'
\* (src/zod/index.ts 48-49).
CoerceEnabled(enabled) ==
  IF TypeOf(enabled) = "boolean" THEN enabled ELSE Bool(enabled = Str("true"))

\* The function given to z.preprocess (src/zod/index.ts 44-51).
preprocess(val) ==
  IF objectHasEnabledProperty(val)
    THEN Set(val.props, "enabled", CoerceEnabled(val.props["enabled"]))
    ELSE [k \in {"enabled"} |-> Bool(FALSE)]

NotPreprocessed == [done |-> FALSE, value |-> EmptyProps]

InitEnabled ==
  /\ BuilderIdle
  /\ input \in PreprocessInputs
  /\ output = NotPreprocessed

\* The schema is given the value: the preprocess step runs on it.
Preprocess ==
  /\ ~output.done
  /\ output' = [done |-> TRUE, value |-> preprocess(input)]
  /\ UNCHANGED <<builderVars, input>>

NextEnabled == Preprocess

SpecEnabled == InitEnabled /\ [][NextEnabled]_vars

\* ------------------------------------------------------- useMergedFetcher
\* A function value, by its name.
Fn(name) == [t |-> "function", s |-> name, a |-> <<>>, r |-> 0]

\* What useNavigation() returns, as far as the hook reads it.
States == {"idle", "loading", "submitting"}
Navigations ==
  [state : States,
   formAction : {Undefined, Str("/route")},
   formData : {Undefined, Str("navigation form data")},
   formMethod : {Undefined, Str("post"), Str("PUT")}]
\* The fetcher argument: absent, or a fetcher in any of its states.
NoFetcher ==
  [given |-> FALSE, state |-> "idle", formAction |-> Undefined, formData |-> Undefined,
   formMethod |-> Undefined, submit |-> Undefined, data |-> Undefined]
Fetchers ==
  {NoFetcher} \cup
  [given : {TRUE}, state : States,
   formAction : {Undefined, Str("/fetcher")},
   formData : {Undefined, Str("fetcher form data")},
   formMethod : {Undefined, Str("post")},
   submit : {Fn("fetcher.submit")},
   data : {Undefined, Str("fetcher data")}]
\* What useActionData() returns.
ActionDatas == {Undefined, Str("action data")}

\* toUpper (remix-forms/components/RhfRemixForm/utils.ts 6-10):
\* value?.toUpperCase().
toUpper(value) ==
  IF value.t # "string" THEN Undefined
  ELSE IF value.s = "post" THEN Str("POST")
  ELSE IF value.s = "get" THEN Str("GET")
  ELSE value

\* The object returned in the fetcher's switch (part_001 58-86).
FromFetcher(fetcher) ==
  [state |-> fetcher.state, formAction |-> fetcher.formAction, formData |-> fetcher.formData,
   formMethod |-> fetcher.formMethod, submit |-> fetcher.submit, data |-> fetcher.data]

\* The object returned in the navigation's switch (part_001 89-117).
FromNavigation(navigation, submit, actionData) ==
  [state |-> navigation.state, formAction |-> navigation.formAction,
   formData |-> navigation.formData,
   formMethod |-> IF navigation.state = "idle" THEN navigation.formMethod
                  ELSE toUpper(navigation.formMethod),
   submit |-> submit, data |-> actionData]

\* A hook that looks at the navigation first and at the fetcher only when
\* the navigation is idle.
useNavigationFirst(fetcher, navigation, submit, actionData) ==
  IF fetcher.given /\ navigation.state = "idle" THEN FromFetcher(fetcher)
  ELSE FromNavigation(navigation, submit, actionData)

\* useMergedFetcher (part_001 49-118).
useMergedFetcher(fetcher, navigation, submit, actionData) ==
  IF fetcher.given /\ fetcher.state \in States THEN FromFetcher(fetcher)
  ELSE FromNavigation(navigation, submit, actionData)

NotRendered ==
  [rendered |-> FALSE, merged |-> FromFetcher(NoFetcher)]

InitFetcher ==
  /\ BuilderIdle
  /\ input \in [fetcher : Fetchers, navigation : Navigations, actionData : ActionDatas]
  /\ output = NotRendered

\* A component renders and calls the hook (part_000 69-71).
Render ==
  /\ ~output.rendered
  /\ output' = [rendered |-> TRUE,
                merged |-> useMergedFetcher(input.fetcher, input.navigation,
                                            Fn("useSubmit"), input.actionData)]
  /\ UNCHANGED <<builderVars, input>>

NextFetcher == Render

SpecFetcher == InitFetcher /\ [][NextFetcher]_vars

\* ------------------------------------------------------------------ claims
Done(r) == r.pc = "done"
Succeeded(r) == r.pc = "done" /\ r.outcome.state = "fulfilled"
Failed(r) == r.pc = "done" /\ r.outcome.state = "rejected"
\* The pipeline whose validation failed in call r, when one did.
FailedPipeline(r) == IF r.cur > 0 THEN Pipelines[r.cur] ELSE ""
ValidationFailed(r) == r.cur > 0 /\ r.issues # {}
HasEvent(r, ev) == \E i \in DOMAIN r.log : r.log[i].ev = ev
NoSchemas(r) == \A p \in PipelineSet : SchemaOptionFor(r.options, p) = NoSchema
\* The returned context's properties.
Returned(r) == r.heap[r.outcome.value].props

\* The three fixed messages a caller sees.
FixedMessage ==
  [form |-> "Several issues were found while trying to parse the form data.",
   params |-> "Several issues were found while trying to parse the params.",
   queryString |-> "Several issues were found while trying to parse the query string."]

\* C1: a builder call with no schema for any pipeline returns a context whose
\* form and queryString are undefined and whose params is the very object that
\* is the request's path-parameter mapping.
C1_NoSchemaDefaults ==
  \A c \in Slots :
    LET r == call[c]
    IN (Succeeded(r) /\ NoSchemas(r)) =>
         /\ PipelineSet \subseteq DOMAIN Returned(r)
         /\ Returned(r)["form"] = Undefined
         /\ Returned(r)["queryString"] = Undefined
         /\ Returned(r)["params"] = Ref(r.args.params)
         /\ r.heap[r.args.ref].props["params"] = Ref(r.args.params)

C1_Witness ==
  \E c \in Slots :
    /\ Succeeded(call[c])
    /\ NoSchemas(call[c])
    /\ call[c].heap[call[c].args.params].props # EmptyProps

\* C2: when a pipeline's schema rejects its input and the hook is absent or
\* returns normally, the call rejects with a new Error whose message is that
\* pipeline's fixed string and which carries none of the validation issues.
C2_FixedMessage ==
  \A c \in Slots :
    LET r == call[c]
    IN (Done(r) /\ ValidationFailed(r) /\ ~HasEvent(r, "hookRaised")) =>
         /\ r.outcome.state = "rejected"
         /\ r.outcome.error.name = "Error"
         /\ r.outcome.error.message = FixedMessage[FailedPipeline(r)]
         /\ r.outcome.error.issues = {}

C2_Witness ==
  \E c \in Slots :
    /\ Done(call[c])
    /\ ValidationFailed(call[c])
    /\ HasEvent(call[c], "hookReturned")
    /\ Cardinality(call[c].issues) = 2
    /\ FailedPipeline(call[c]) = "form"

\* C3: with an error hook, a pipeline invokes it exactly once when the schema
\* rejects the input and not at all otherwise; the invocation receives the
\* base-context object and the request-data object the pipeline was given,
\* and the validation error.
C3_HookOnce ==
  \A c \in Slots : \A p \in PipelineSet :
    LET r == call[c]
    IN (Done(r) /\ HookFor(p)) =>
         IF ValidationFailed(r) /\ FailedPipeline(r) = p
           THEN /\ Count(r, "hook", p) = 1
                /\ \A i \in Logged(r, "hook", p) :
                     /\ r.log[i].ctx = r.customContext
                     /\ r.log[i].args = r.args.ref
                     /\ r.log[i].issues = r.issues
           ELSE Count(r, "hook", p) = 0

C3_Witness ==
  \E c \in Slots :
    /\ Done(call[c])
    /\ ValidationFailed(call[c])
    /\ FailedPipeline(call[c]) = "queryString"
    /\ HookFor("queryString") /\ HookFor("params")
    /\ Count(call[c], "hook", "queryString") = 1
    /\ Count(call[c], "validate", "params") = 1

\* C4: when the hook raises, the call rejects with the hook's error and the
\* fixed-message error is not raised; the fixed-message error after a hook
\* invocation is raised only when the hook returned normally.
C4_HookErrorWins ==
  \A c \in Slots :
    LET r == call[c]
    IN /\ (Done(r) /\ HasEvent(r, "hookRaised")) =>
            /\ r.outcome.state = "rejected"
            /\ r.outcome.error = [name |-> "Error", message |-> "custom error", issues |-> {}]
       /\ (Done(r) /\ HasEvent(r, "hook")
             /\ r.outcome.error.message \in {FixedMessage[p] : p \in PipelineSet}) =>
            HasEvent(r, "hookReturned")

C4_Witness ==
  \E c \in Slots :
    /\ Done(call[c])
    /\ HasEvent(call[c], "hookRaised")
    /\ ValidationFailed(call[c])

\* C5: when the configurator throws or rejects, the call rejects with that very
\* error and no pipeline runs: no thunk, no body read, no extractor, no hook,
\* no validation, and nothing is attached to any object.
C5_ConfiguratorErrorVerbatim ==
  \A c \in Slots :
    LET r == call[c]
    IN HasEvent(r, "configuratorRaised") =>
         /\ r.pc = "done"
         /\ r.outcome = Rejected([name |-> "Error", message |-> "I can do this!", issues |-> {}])
         /\ \A i \in DOMAIN r.log : r.log[i].ev \in {"configurator", "configuratorRaised"}
         /\ r.customContext = 0
         /\ r.context = NoContext
         /\ Len(r.heap) = 2
         /\ \A n \in DOMAIN r.heap : DOMAIN r.heap[n].props \cap PipelineSet \subseteq {"params"}

C5_Witness ==
  \E c \in Slots :
    /\ HasEvent(call[c], "configuratorRaised")
    /\ \A p \in PipelineSet : SchemaOptionFor(call[c].options, p) = Thunk
    /\ call[c].options.formDataParser

\* What call r has invoked for pipeline p: its thunk, its parse function, its
\* extraction, its validation, its hook.
Ran(r, p) == Count(r, "parse", p)
Touched(r, p) == \E i \in DOMAIN r.log : r.log[i].p = p

\* C6 as stated: a validation failure in one pipeline does not keep the other
\* two pipelines from running.
C6_Original ==
  \A c \in Slots :
    LET r == call[c]
    IN (Done(r) /\ ValidationFailed(r)) => \A p \in PipelineSet : Ran(r, p) = 1

\* C6, amended: the builder runs the pipelines one after the other (params,
\* query string, form) and stops at the first validation failure: the call
\* rejects, the pipelines before the failing one have run to completion, and
\* the pipelines after it do not run at all (no thunk, no extraction, no
\* validation, no hook).
C6_ShortCircuit ==
  \A c \in Slots :
    LET r == call[c]
    IN (Done(r) /\ ValidationFailed(r)) =>
         /\ r.outcome.state = "rejected"
         /\ \A i \in DOMAIN Pipelines :
              /\ i <= r.cur => Ran(r, Pipelines[i]) = 1
              /\ i < r.cur =>
                   (Count(r, "validate", Pipelines[i]) = 1 <=>
                      r.context[Pipelines[i]] \notin {Undefined, Ref(r.args.params)})
              /\ i > r.cur => ~Touched(r, Pipelines[i])

C6_Witness ==
  \E c \in Slots :
    /\ Done(call[c])
    /\ ValidationFailed(call[c])
    /\ FailedPipeline(call[c]) = "params"
    /\ call[c].options.queryStringSchema = GivenSchema
    /\ call[c].options.formSchema = GivenSchema
    /\ HookFor("queryString") /\ HookFor("form")

\* C7 as stated: with a custom extractor supplied, every run of the form
\* pipeline invokes it exactly once and never the request's body reader.
C7_Original ==
  \A c \in Slots :
    LET r == call[c]
    IN (Done(r) /\ r.options.formDataParser /\ Ran(r, "form") = 1) =>
         /\ Count(r, "formDataParser", "form") = 1
         /\ Count(r, "request", "form") = 0

\* C7, amended: with a custom extractor supplied and a form schema given (the
\* option unwraps to a schema), a run of the form pipeline invokes the
\* extractor exactly once, with the base context and the request data, builds
\* the object it validates from the collection the extractor returned, and
\* never calls the request's body reader; without a form schema the
\* extractor is not invoked.
C7_ExtractorWithSchema ==
  \A c \in Slots :
    LET r == call[c]
    IN (Done(r) /\ r.options.formDataParser /\ Ran(r, "form") = 1) =>
         /\ Count(r, "request", "form") = 0
         /\ IF Truthy(r.schema)
              THEN /\ Count(r, "formDataParser", "form") = 1
                   /\ \A i \in Logged(r, "formDataParser", "form") :
                        r.log[i].ctx = r.customContext /\ r.log[i].args = r.args.ref
                   /\ Count(r, "validate", "form") = 1
                   /\ \A i \in Logged(r, "validate", "form") : r.log[i].src = "formDataParser"
              ELSE Count(r, "formDataParser", "form") = 0

C7_Witness ==
  \E c \in Slots :
    /\ Succeeded(call[c])
    /\ call[c].options.formDataParser
    /\ Truthy(call[c].schema)
    /\ Count(call[c], "validate", "form") = 1

\* C8: on success the builder returns the very object the configurator
\* produced; the merge writes the keys form, params and queryString on it and
\* nothing else: no other property is read, evaluated, changed or removed, and
\* no getter is evaluated.
C8_MergeInPlace ==
  [][\A c \in Slots :
       (call[c].pc = "merge" /\ call'[c].pc = "done") =>
         LET r == call[c]
             after == call'[c]
             o == r.heap[r.customContext]
             o2 == after.heap[r.customContext]
         IN /\ after.outcome = Fulfilled(r.customContext)
            /\ Len(after.heap) = Len(r.heap)
            /\ \A n \in DOMAIN r.heap : n # r.customContext => after.heap[n] = r.heap[n]
            /\ o2.getters = o.getters
            /\ o2.forced = o.forced
            /\ DOMAIN o2.props = DOMAIN o.props \cup PipelineSet
            /\ \A k \in DOMAIN o.props \ PipelineSet : o2.props[k] = o.props[k]
            /\ \A p \in PipelineSet : o2.props[p] = r.context[p]]_vars

C8_Witness ==
  \E c \in Slots :
    /\ Succeeded(call[c])
    /\ call[c].heap[call[c].customContext].getters = {"test"}
    /\ call[c].heap[call[c].customContext].forced = 0
    /\ "magic" \in DOMAIN Returned(call[c])
    /\ Returned(call[c])["form"] # Undefined

\* C9: no partial success: the configurator's output carries all three of
\* form, params and queryString once the call has succeeded, and none of them
\* in any other state, a rejected call whose earlier pipelines had succeeded
\* included.
C9_NoPartialSuccess ==
  \A c \in Slots :
    LET r == call[c]
    IN /\ Done(r) => r.outcome.state \in {"fulfilled", "rejected"}
       /\ r.outcome.state = "fulfilled" =>
            /\ Done(r)
            /\ \A p \in PipelineSet : Ran(r, p) = 1
       /\ r.customContext # 0 =>
            DOMAIN r.heap[r.customContext].props \cap PipelineSet =
              (IF r.outcome.state = "fulfilled" THEN PipelineSet ELSE {})

C9_Witness ==
  \E c \in Slots :
    /\ Failed(call[c])
    /\ FailedPipeline(call[c]) = "form"
    /\ call[c].context["params"].t = "object"
    /\ call[c].context["queryString"].t = "object"
    /\ call[c].customContext # 0

\* C10: a schema thunk is invoked once per pipeline invocation and its result
\* is not kept for a later call: after N successful builder calls made with the
\* thunk it has been invoked N times, and each call validates against the
\* schema its own invocation returned.
C10_ThunkPerCall ==
  /\ \A p \in PipelineSet :
       (allOk /\ \A c \in Slots : call[c].pc = "idle" \/ Succeeded(call[c])) =>
         thunkCalls[p] = callsWithThunk[p]
  /\ \A c \in Slots : \A p \in PipelineSet :
       LET r == call[c]
       IN /\ Count(r, "thunk", p) <= 1
          /\ SchemaOptionFor(r.options, p) = Thunk =>
               \A i \in Logged(r, "validate", p) :
                 \E j \in Logged(r, "thunk", p) :
                   /\ j < i
                   /\ r.log[j].gen = r.log[i].gen
                   /\ r.log[j].gen = thunkCalls[p]

C10_Witness ==
  /\ allOk
  /\ calls >= 2
  /\ Succeeded(call[1])
  /\ \A p \in PipelineSet :
       callsWithThunk[p] = 2 /\ Count(call[1], "validate", p) = 1

\* The string values of key in the field collection, in field order.
StringValues(entries, key) ==
  LET own == SelectSeq(entries, LAMBDA e : e.key = key /\ e.value.t = "string")
  IN [i \in 1..Len(own) |-> own[i].value.s]
\* What a key with these values is to map to: the one string, or the sequence.
Expected(values) ==
  IF Len(values) = 1 THEN StringTree(values[1])
  ELSE ArrayOf([j \in 1..Len(values) |-> StringTree(values[j])])
\* What the built object holds at the key's path.
At(obj, key) == Sub(obj, stringToPath(key))
\* Two different keys of which one's path leads through the other's.
Overlap(k1, k2) ==
  /\ k1 # k2
  /\ \/ IsPrefix(stringToPath(k1), stringToPath(k2))
     \/ IsPrefix(stringToPath(k2), stringToPath(k1))
\* No other key of the collection overlaps key.
Alone(entries, key) == \A i \in DOMAIN entries : ~Overlap(entries[i].key, key)

\* C11: for every ordered sequence of (key, string value) pairs and either
\* pipeline, a key that occurs once maps to its string and a key that occurs
\* k >= 2 times maps to the sequence of its k values in source order.
C11_KeyValues ==
  \A p \in output.built :
    StringsOnly(input) =>
      \A i \in DOMAIN input :
        At(output[p], input[i].key) = Expected(StringValues(input, input[i].key))

\* The last entry of the collection under key, and whether an entry after
\* it is under a key that overlaps key.
LastOf(entries, key) ==
  CHOOSE i \in DOMAIN entries :
    entries[i].key = key /\ \A j \in DOMAIN entries : entries[j].key = key => j <= i
OverwrittenLater(entries, key) ==
  \E j \in DOMAIN entries : j > LastOf(entries, key) /\ Overlap(entries[j].key, key)

\* C12: parseForm drops the non-string values before it builds. A key whose
\* values are all non-strings is not set at all, to empty, null or anything:
\* the object is the one built from the fields of the other keys, and nothing
\* is at the key's path unless another key's path leads through it. A key with
\* mixed values is set to its string values only, in field order (which is
\* what the object holds for it unless the path is written again later, under
\* an overlapping key).
C12_FilesDropped ==
  "form" \in output.built =>
    \A i \in DOMAIN input :
      LET key == input[i].key
          values == StringValues(input, key)
      IN IF Len(values) = 0
           THEN /\ output.form = BuildFormObject(SelectSeq(input, LAMBDA e : e.key # key))
                /\ Alone(input, key) => stringToPath(key) \notin DOMAIN output.form
           ELSE ~OverwrittenLater(input, key) => At(output.form, key) = Expected(values)

C12_Witness ==
  /\ "form" \in output.built
  /\ \E i, j, k \in DOMAIN input :
       /\ input[i].key # input[j].key
       /\ StringValues(input, input[i].key) = <<>>
       /\ input[j].key = input[k].key
       /\ j < k
       /\ input[j].value.t = "string"
       /\ input[k].value.t = "file"
       /\ At(output.form, input[j].key) = StringTree(input[j].value.s)

\* What pipeline p of call r reads from the call's own request.
OwnInput(r, p) ==
  IF p = "params" THEN r.heap[r.args.params].props
  ELSE IF p = "queryString" THEN Properties(BuildQueryObject(r.request.url))
  ELSE Properties(BuildFormObject(r.request.body))
Validated(r, p) == Count(r, "validate", p) = 1

\* C13: two calls of the one builder for different requests, their steps
\* interleaved in any order, share no mutable state: a step of one call leaves
\* the other call's state as it is; a call that succeeds returns a context
\* whose form, params and queryString are those parsed from its own request
\* (the validated data of its own input, or the no-schema default), and a
\* call that fails on a validation fails on the issues of its own input.
C13_Independent ==
  /\ [](\A c \in Slots :
          LET r == call[c]
          IN /\ Succeeded(r) =>
                  \A p \in PipelineSet :
                    IF Validated(r, p)
                      THEN /\ safeParse(OwnInput(r, p)).success
                           /\ Returned(r)[p].t = "object"
                           /\ Returned(r)[p].r \in DOMAIN r.heap
                           /\ r.heap[Returned(r)[p].r].props = safeParse(OwnInput(r, p)).data
                      ELSE Returned(r)[p] =
                             (IF p = "params" THEN Ref(r.args.params) ELSE Undefined)
             /\ (Failed(r) /\ ValidationFailed(r)) =>
                  /\ Validated(r, FailedPipeline(r))
                  /\ r.issues = safeParse(OwnInput(r, FailedPipeline(r))).issues)
  /\ [][\A c, d \in Slots :
          (c # d /\ call'[c] # call[c]) => call'[d] = call[d]]_vars

\* Both calls succeeded with different data, and neither ran before the
\* other: call 1 was first to unwrap its params schema, call 2 its form schema.
C13_Witness ==
  /\ Succeeded(call[1])
  /\ Succeeded(call[2])
  /\ \A p \in PipelineSet : Validated(call[1], p) /\ Validated(call[2], p)
  /\ call[1].heap[Returned(call[1])["form"].r].props
       # call[2].heap[Returned(call[2])["form"].r].props
  /\ \E i \in Logged(call[1], "thunk", "params") : call[1].log[i].gen = 1
  /\ \E i \in Logged(call[2], "thunk", "form") : call[2].log[i].gen = 1

\* C14: the preprocess step of the boolean-gated schema gives an object whose
\* `enabled` is a boolean, for every input: exactly {enabled: false} for a
\* non-object, null, or an object without `enabled`; for an object with
\* `enabled`, the boolean it had, or, of a non-boolean, true if and only if it
\* is the string 'true'; every other property is carried over unchanged and
\* none is added.
C14_EnabledCoerced ==
  output.done =>
    LET out == output.value
        isObject == input.v.t \in {"object", "array"}
    IN /\ "enabled" \in DOMAIN out
       /\ out["enabled"].t = "boolean"
       /\ IF isObject /\ "enabled" \in DOMAIN input.props
            THEN /\ DOMAIN out = DOMAIN input.props
                 /\ \A k \in DOMAIN input.props \ {"enabled"} : out[k] = input.props[k]
                 /\ LET was == input.props["enabled"]
                    IN IF was.t = "boolean"
                         THEN out["enabled"] = was
                         ELSE (out["enabled"].s = "true") <=> (was.t = "string" /\ was.s = "true")
            ELSE /\ DOMAIN out = {"enabled"}
                 /\ out["enabled"].s = "false"

C14_Witness ==
  /\ output.done
  /\ input.v.t = "object"
  /\ "enabled" \in DOMAIN input.props
  /\ input.props["enabled"] = [t |-> "string", s |-> "false", a |-> <<>>, r |-> 0]
  /\ DOMAIN input.props = {"enabled", "name", "age"}
  /\ output.value["enabled"].s = "false"

\* C15: useMergedFetcher gives the fetcher precedence. With a fetcher, the
\* returned state, formAction, formData, formMethod, submit and data are the
\* fetcher's own, whatever the navigation is; without one, state, formAction
\* and formData are the navigation's, submit is the useSubmit function and
\* data is the route's action data.
C15_FetcherPrecedence ==
  output.rendered =>
    LET m == output.merged
        f == input.fetcher
        n == input.navigation
    IN IF f.given
         THEN /\ m.state = f.state
              /\ m.formAction = f.formAction
              /\ m.formData = f.formData
              /\ m.formMethod = f.formMethod
              /\ m.submit = f.submit
              /\ m.data = f.data
         ELSE /\ m.state = n.state
              /\ m.formAction = n.formAction
              /\ m.formData = n.formData
              /\ m.submit = [t |-> "function", s |-> "useSubmit", a |-> <<>>, r |-> 0]
              /\ m.data = input.actionData

C15_Witness ==
  /\ output.rendered
  /\ input.fetcher.given
  /\ input.fetcher.state = "idle"
  /\ input.navigation.state = "submitting"
  /\ input.navigation.formAction # input.fetcher.formAction
  /\ input.actionData # input.fetcher.data
  /\ output.merged.state = "idle"

\* Events of a pipeline: everything but the configurator's.
PipelineEvent(e) == e.ev \notin {"configurator", "configuratorRaised"}
Settled(r) == HasEvent(r, "hookReturned") \/ HasEvent(r, "hookRaised")

\* C16: in every builder call the configurator, sync or async, is awaited to
\* completion before any pipeline step: until its output is there no thunk is
\* invoked, nothing is validated, no body is read and no hook runs, and what
\* the extractor and the hooks receive as context is that output object.
C16_ConfiguratorFirst ==
  \A c \in Slots :
    LET r == call[c]
    IN /\ r.customContext = 0 =>
            /\ r.pc \in {"idle", "configurator", "configuratorAwait", "done"}
            /\ \A i \in DOMAIN r.log : ~PipelineEvent(r.log[i])
       /\ r.pc = "configuratorAwait" => r.log = <<Event("configurator", "")>>
       /\ \A i \in DOMAIN r.log :
            PipelineEvent(r.log[i]) =>
              /\ r.log[1].ev = "configurator"
              /\ i > 1
              /\ r.customContext \in DOMAIN r.heap
              /\ \E b \in BaseContexts :
                   /\ r.heap[r.customContext].getters = b.getters
                   /\ \A k \in DOMAIN b.props : r.heap[r.customContext].props[k] = b.props[k]
              /\ r.log[i].ev \in {"hook", "formDataParser", "request"} =>
                   r.log[i].ctx = r.customContext

C16_Witness ==
  \E c \in Slots :
    /\ Failed(call[c])
    /\ FailedPipeline(call[c]) = "form"
    /\ Count(call[c], "thunk", "params") = 1
    /\ Count(call[c], "formDataParser", "form") = 1
    /\ Count(call[c], "hook", "form") = 1
    /\ call[c].heap[call[c].customContext].getters = {"test"}

\* C17: on a validation failure with an error hook that returns a promise,
\* the call does not reject while that promise is pending: the rejection comes
\* after the hook's invocation and after its settlement, and the fixed-message
\* error only after the hook has returned normally.
C17_HookAwaited ==
  \A c \in Slots :
    LET r == call[c]
    IN /\ r.pc = "hookAwait" =>
            /\ r.outcome = Pending
            /\ r.log[Len(r.log)].ev = "hook"
       /\ (HasEvent(r, "hook") /\ ~Settled(r)) => r.outcome = Pending
       /\ (HasEvent(r, "hook") /\ r.outcome.state = "rejected") =>
            \E i, j \in DOMAIN r.log :
              /\ i < j
              /\ j = Len(r.log)
              /\ r.log[i].ev = "hook"
              /\ r.log[j].ev \in {"hookReturned", "hookRaised"}
              /\ r.log[j].ev = "hookReturned" <=>
                   r.outcome.error.message = FixedMessage[FailedPipeline(r)]

C17_Witness ==
  \E c \in Slots :
    /\ Failed(call[c])
    /\ HasEvent(call[c], "hook")
    /\ HasEvent(call[c], "hookReturned")
    /\ FailedPipeline(call[c]) = "queryString"
    /\ call[c].outcome.error.message = FixedMessage["queryString"]

\* C18: for every ordered sequence of (key path, string value) pairs,
\* repeated keys and overlapping paths included, the object parseForm builds
\* equals the object parseQueryString builds.
C18_SameObject ==
  (StringsOnly(input) /\ output.built = {"form", "queryString"}) =>
    output.form = output.queryString

\* The order of the pipelines.
Order == [params |-> 1, queryString |-> 2, form |-> 3]
HookEvents(r) == {i \in DOMAIN r.log : r.log[i].ev = "hook"}
\* What a pipeline invokes, the merge's writes left aside.
Steps(r) == {i \in DOMAIN r.log : r.log[i].p \in PipelineSet /\ r.log[i].ev # "set"}
\* The call's own input of pipeline p is what the pipeline read.
InputKnown(r, p) == r.request.known /\ (p = "form" => ~r.options.formDataParser)

\* C19: the builder runs the pipelines in the order params, query string,
\* form, each to its end before the next starts. When more than one
\* pipeline's input is invalid the call rejects with the error of the
\* earliest failing pipeline in that order (its fixed message, or what its
\* hook raised), at most one hook is invoked in the whole call, and of the
\* later pipelines nothing is invoked: no thunk, no body read, no extractor,
\* no validation, no hook.
C19_InOrder ==
  \A c \in Slots :
    LET r == call[c]
    IN /\ \A i, j \in Steps(r) : i < j => Order[r.log[i].p] <= Order[r.log[j].p]
       /\ \A p, q \in PipelineSet :
            (Order[p] < Order[q] /\ \E i \in Steps(r) : r.log[i].p = q) =>
              /\ Ran(r, p) = 1
              /\ Count(r, "hook", p) = 0
              /\ IF Validated(r, p) THEN r.context[p].t = "object"
                 ELSE r.context[p] = (IF p = "params" THEN Ref(r.args.params) ELSE Undefined)
       /\ Cardinality(HookEvents(r)) <= 1
       /\ (Failed(r) /\ ValidationFailed(r)) =>
            LET f == FailedPipeline(r)
            IN /\ r.outcome.error \in
                    { [name |-> "Error", message |-> FixedMessage[f], issues |-> {}],
                      [name |-> "Error", message |-> "custom error", issues |-> {}] }
               /\ \A i \in HookEvents(r) : r.log[i].p = f
               /\ \A q \in PipelineSet : Order[q] > Order[f] => ~Touched(r, q)
               /\ InputKnown(r, f) => r.issues = safeParse(OwnInput(r, f)).issues
               /\ \A p \in PipelineSet :
                    (Order[p] < Order[f] /\ Validated(r, p) /\ InputKnown(r, p)) =>
                      safeParse(OwnInput(r, p)).success

\* A call for a request whose path parameters, URL and body are all three
\* invalid, with a schema, a hook and an extractor for each.
C19_Witness ==
  \E c \in Slots :
    LET r == call[c]
    IN /\ Failed(r)
       /\ ValidationFailed(r)
       /\ FailedPipeline(r) = "params"
       /\ r.request.known
       /\ \A p \in PipelineSet :
            /\ SchemaOptionFor(r.options, p) = GivenSchema
            /\ HookFor(p)
            /\ ~safeParse(OwnInput(r, p)).success
       /\ r.options.formDataParser
       /\ Cardinality(HookEvents(r)) = 1

\* What call r has read of its request for pipeline p: the body, through the
\* body reader or the extractor, or the URL, parsed for a validation.
Reads(r, p) ==
  {i \in DOMAIN r.log :
     r.log[i].p = p /\ r.log[i].ev \in {"request", "formDataParser", "validate"}}

\* C20: without a form schema (none given, or a thunk that returns undefined)
\* parseForm does not touch the request body: neither the body reader nor a
\* supplied extractor is invoked, nothing is validated, and its result is
\* undefined; likewise parseQueryString without a schema does not parse the
\* URL and results in undefined.
C20_NoSchemaNoRead ==
  /\ [](\A c \in Slots :
          LET r == call[c]
          IN /\ (Ran(r, "form") = 1 /\ r.schema.kind # "schema") =>
                  /\ Reads(r, "form") = {}
                  /\ r.context["form"] = Undefined
                  /\ Succeeded(r) => Returned(r)["form"] = Undefined
             /\ \A p \in {"form", "queryString"} :
                  (Ran(r, p) = 1 /\ SchemaOptionFor(r.options, p).kind = "none") =>
                    /\ Reads(r, p) = {}
                    /\ r.context[p] = Undefined
                    /\ Succeeded(r) => Returned(r)[p] = Undefined)
  /\ [][\A c \in Slots :
          LET r == call[c]
              after == call'[c]
          IN (/\ r.pc = "parse"
              /\ after # r
              /\ r.cur \in {2, 3}
              /\ r.schema.kind # "schema") =>
               LET p == IF r.cur = 2 THEN "queryString" ELSE "form"
               IN /\ after.log =
                       Append(r.log, [ev |-> "parse", p |-> p, ctx |-> 0, args |-> 0,
                                      gen |-> 0, issues |-> {}, src |-> ""])
                  /\ after.context = [r.context EXCEPT ![p] = Undefined]
                  /\ after.heap = r.heap
                  /\ after.outcome = r.outcome
                  /\ after.pc \in {"unwrap", "merge"}]_vars

C20_Witness ==
  \E c \in Slots :
    LET r == call[c]
    IN /\ Succeeded(r)
       /\ r.options.formDataParser
       /\ r.options.formSchema = Thunk
       /\ Count(r, "thunk", "form") = 1
       /\ r.schema.kind = "none"
       /\ r.options.queryStringSchema = NoSchema
       /\ Count(r, "validate", "params") = 1
       /\ Reads(r, "form") = {}
       /\ Returned(r)["form"] = Undefined
       /\ Returned(r)["queryString"] = Undefined

====
